---- MODULE Spec2Model ----
(***************************************************************************)
(* Model of src/main.py: get_one_stock_financial_data, the indicator and   *)
(* scoring path (sections 4, 6.1-6.5 and 6.7 of the function).             *)
(*                                                                         *)
(* One call of the function is one behaviour.  The data provider (akshare) *)
(* is the environment: `provider` holds what each endpoint would return    *)
(* for the symbol, or "fail" when retry_get_data re-raises after its last  *)
(* attempt.  `pc` is the position in the function; each section of the     *)
(* function is one action.  The sections that only print tables of other   *)
(* endpoints (2, 4.1-4.4, 5, the market comparisons and 6.6) assign nothing *)
(* that the indicators or the score read, and are left out; the snapshot    *)
(* carries no industry key, so the industry blocks are skipped as in the    *)
(* code.                                                                    *)
(*                                                                         *)
(* Python floats are modelled as exact rationals [nan, n, d] (value n/d),  *)
(* with IEEE comparison semantics for NaN (every comparison is false).     *)
(* Quantities that are square roots in the code (volatility, and the       *)
(* Sharpe ratio that divides by it) are held as a sign and an exact        *)
(* square, so that every threshold comparison of the code is decided       *)
(* exactly.                                                                *)
(***************************************************************************)
EXTENDS Integers, Sequences, FiniteSets, TLC

VARIABLES provider, pc, stock_info_dict, bid_ask_dict, hist_data_df,
          annual_hist_data_df, locals, score_items, score_total, score_count,
          result_sections,
          \* one call of retry_get_data
          func, max_retries, attempt, last_exception, e, events, outcome, rpc

\* the variables of one call of get_one_stock_financial_data
report_vars == <<provider, pc, stock_info_dict, bid_ask_dict, hist_data_df,
                 annual_hist_data_df, locals, score_items, score_total, score_count,
                 result_sections>>

\* the variables of one call of retry_get_data
retry_vars == <<func, max_retries, attempt, last_exception, e, events, outcome, rpc>>

vars == <<report_vars, retry_vars>>

(***************************************************************************)
(* Bounds of the model.                                                    *)
(***************************************************************************)
\* longest price series the provider returns (covers the 20, 26 and 60 row gates)
MaxLen == 61
\* largest PE the snapshot carries (the PE grid is every multiple of PEStep up to it)
MaxPE == 55
\* largest PB the snapshot carries, in halves (9 is PB = 4.5)
MaxPB2 == 9
\* rows of the short series used when another input is the one being varied
MaxCoreLen == 21
\* largest turnover rate the quote table carries, in halves (15 is 7.5)
MaxTurnover2 == 15
\* largest volume ratio the quote table carries, in tenths (31 is 3.1)
MaxVolRatio10 == 31
\* largest max_retries handed to retry_get_data
MaxRetries == 3
\* the annual returns the return table is read on: multiples of 5 up to this, in percent
MaxReturn == 35
\* the Sharpe ratios the Sharpe table is read on: quarters up to this (10 is 2.5)
MaxSharpe4 == 10

(***************************************************************************)
(* Python float arithmetic, exact.                                         *)
(***************************************************************************)
RECURSIVE GCD(_, _)
GCD(a, b) == IF b = 0 THEN a ELSE GCD(b, a % b)

Abs(x) == IF x < 0 THEN -x ELSE x

NaN == [nan |-> TRUE, n |-> 0, d |-> 1]

\* the float n/d (d > 0), in lowest terms
Q(n, d) ==
    LET g == GCD(Abs(n), d)
    IN  [nan |-> FALSE, n |-> n \div g, d |-> d \div g]

Num(x) == Q(x, 1)

\* a < b; false when either is NaN
FLt(a, b) ==
    /\ ~a.nan
    /\ ~b.nan
    /\ LET g == GCD(a.d, b.d)
       IN  (a.n * (b.d \div g)) \div (a.d \div g) < b.n

FGt(a, b) == FLt(b, a)

\* a <= b; false when either is NaN
FLe(a, b) == ~a.nan /\ ~b.nan /\ ~FLt(b, a)

FGe(a, b) == FLe(b, a)

FAdd(a, b) ==
    IF a.nan \/ b.nan THEN NaN
    ELSE LET g == GCD(a.d, b.d)
         IN  Q(a.n * (b.d \div g) + b.n * (a.d \div g), (a.d \div g) * b.d)

FNeg(a) == IF a.nan THEN NaN ELSE [nan |-> FALSE, n |-> -a.n, d |-> a.d]

FSub(a, b) == FAdd(a, FNeg(b))

FMul(a, b) ==
    IF a.nan \/ b.nan THEN NaN
    ELSE LET g1 == GCD(Abs(a.n), b.d)
             g2 == GCD(Abs(b.n), a.d)
         IN  Q((a.n \div g1) * (b.n \div g2), (a.d \div g2) * (b.d \div g1))

\* a / b for b # 0
FDiv(a, b) ==
    IF a.nan \/ b.nan THEN NaN
    ELSE IF b.n < 0 THEN FMul(a, Q(-b.d, -b.n))
    ELSE FMul(a, Q(b.d, b.n))

(***************************************************************************)
(* The data provider: what each akshare endpoint returns for the symbol.   *)
(***************************************************************************)
\* a DataFrame of daily rows: the 'shou pan' (close) and 'zhang die fu'
\* (percent change) columns; none is Python's None
None == [none |-> TRUE, close |-> <<>>, pct |-> <<>>]

DataFrame(close, pct) == [none |-> FALSE, close |-> close, pct |-> pct]

\* the level the close series sits at before its latest sessions
BaseClose == 10

\* the latest closes of a series: nothing (flat), one move, or two moves
Tails == {<<>>, <<13>>, <<7>>, <<7, 14>>, <<7, 13>>, <<13, 6>>, <<7, 12>>, <<13, 8>>}

\* n closes: BaseClose throughout, ending in (the last n of) tail
Closes(n, tail) ==
    [i \in 1..n |->
        LET j == i - (n - Len(tail))
        IN  IF j >= 1 THEN tail[j] ELSE BaseClose]

\* daily percent changes alternate between two values
PctKinds == {<<0, 0>>, <<1, -1>>, <<2, -1>>, <<2, -2>>, <<11, -9>>, <<21, -19>>, <<41, -39>>}

Pcts(n, kind) == [i \in 1..n |-> IF i % 2 = 1 THEN Num(kind[1]) ELSE Num(kind[2])]

CoreTail == <<7, 14>>

CorePct == <<11, -9>>

\* every series shape at every length up to MaxLen
SeriesRich ==
    {DataFrame(Closes(n, t), Pcts(n, CorePct)) : n \in 0..MaxLen, t \in Tails}
    \cup {DataFrame(Closes(n, CoreTail), Pcts(n, k)) : n \in 0..MaxLen, k \in PctKinds}

\* the short series used while the snapshot is varied
SeriesCore ==
    {DataFrame(Closes(n, CoreTail), Pcts(n, CorePct)) : n \in (MaxCoreLen - 2)..MaxCoreLen}

\* the 90-day series: every shape at every length up to MaxCoreLen
SeriesQuarter ==
    {DataFrame(Closes(n, t), Pcts(n, CorePct)) : n \in 0..MaxCoreLen, t \in Tails \cup {<<13, 11>>}}

\* a quiet rising stock: the closes step up on the latest session and the
\* daily changes alternate between +1.25 and -1 percent
SeriesSteady ==
    {DataFrame(Closes(n, <<13>>), [i \in 1..n |-> IF i % 2 = 1 THEN Q(5, 4) ELSE Num(-1)])
        : n \in (MaxCoreLen + 1)..(MaxCoreLen + 2)}

\* rows of history below which the one-year series is fetched again
AnnualMinRows == 250

\* a 90-day fetch that comes back with a year of rows, one row short of the
\* threshold of section 6.1 and exactly on it
SeriesYear ==
    {DataFrame(Closes(n, CoreTail), Pcts(n, CorePct)) : n \in (AnnualMinRows - 1)..AnnualMinRows}

\* a fetch through retry_get_data: a table, or the last attempt's exception
Fetched(df) == [ok |-> TRUE, df |-> df]

FetchFailed == [ok |-> FALSE, df |-> None]

\* a value of the snapshot table: a number, a NaN, or text that float() rejects
TokNum(x) == [kind |-> "num", val |-> x]

TokNaN == [kind |-> "nan", val |-> NaN]

TokText == [kind |-> "text", val |-> NaN]

\* the PE grid: every multiple of 5 from -5 to MaxPE
PETokens ==
    {TokNum(Num(x)) : x \in {y \in (-5)..MaxPE : y % 5 = 0}}
    \cup {TokNaN, TokText}

PBTokens == {TokNum(Q(x, 2)) : x \in 0..MaxPB2} \cup {TokNaN, TokText}

\* the snapshot as a dict: the keys 'shi ying lv' (PE) and 'shi jing lv' (PB)
\* may each be absent
InfoDicts ==
    {[k \in {"PE", "PB"} |-> IF k = "PE" THEN pe ELSE pb] : pe \in PETokens, pb \in PBTokens}
    \cup {[k \in {"PE"} |-> pe] : pe \in PETokens}
    \cup {[k \in {"PB"} |-> pb] : pb \in PBTokens}
    \cup {<<>>}

TurnoverTokens == {TokNum(Q(x, 2)) : x \in 0..MaxTurnover2} \cup {TokNaN, TokText}

VolRatioTokens == {TokNum(Q(x, 10)) : x \in 0..MaxVolRatio10} \cup {TokNaN, TokText}

\* the quote table as a dict: the keys 'huan shou lv' (turnover rate) and
\* 'liang bi' (volume ratio) may each be absent
BidAskDicts ==
    {[k \in {"turnover", "volume_ratio"} |-> IF k = "turnover" THEN t ELSE v]
        : t \in TurnoverTokens, v \in VolRatioTokens}
    \cup {[k \in {"turnover"} |-> t] : t \in TurnoverTokens}
    \cup {[k \in {"volume_ratio"} |-> v] : v \in VolRatioTokens}
    \cup {<<>>}

BidAskRich == {[ok |-> TRUE, dict |-> d] : d \in BidAskDicts} \cup {[ok |-> FALSE, dict |-> <<>>]}

BidAskCore == {[ok |-> FALSE, dict |-> <<>>]}

InfoRich == {[ok |-> TRUE, dict |-> d] : d \in InfoDicts} \cup {[ok |-> FALSE, dict |-> <<>>]}

InfoCore ==
    {[ok |-> FALSE, dict |-> <<>>],
     [ok |-> TRUE, dict |-> [k \in {"PE", "PB"} |-> IF k = "PE" THEN TokNum(Num(15)) ELSE TokNum(Q(1, 2))]]}

\* one input is varied over its whole range while the others stay in their core
ProviderStates ==
    [info : InfoRich, bidask : BidAskCore, hist90 : {FetchFailed},
     hist365 : {FetchFailed} \cup {Fetched(s) : s \in SeriesCore}]
    \cup [info : InfoCore, bidask : BidAskRich, hist90 : {FetchFailed}, hist365 : {FetchFailed}]
    \cup [info : InfoCore, bidask : BidAskCore, hist90 : {Fetched(s) : s \in SeriesCore},
           hist365 : {FetchFailed} \cup {Fetched(s) : s \in SeriesCore}]
    \cup [info : InfoCore, bidask : BidAskCore, hist90 : {FetchFailed},
           hist365 : {Fetched(s) : s \in SeriesRich}]
    \cup [info : InfoCore, bidask : BidAskCore, hist90 : {Fetched(s) : s \in SeriesQuarter},
           hist365 : {FetchFailed}]
    \cup [info : InfoRich, bidask : BidAskCore, hist90 : {FetchFailed},
           hist365 : {Fetched(s) : s \in SeriesSteady}]
    \cup [info : InfoCore, bidask : BidAskCore, hist90 : {Fetched(s) : s \in SeriesYear},
           hist365 : {FetchFailed} \cup {Fetched(s) : s \in SeriesCore}]

(***************************************************************************)
(* retry_get_data(func, max_retries, retry_interval, **kwargs)             *)
(*                                                                         *)
(* func[i] is what the i-th invocation of func does: return a value or     *)
(* raise an exception.  events is the trace of the calls the function      *)
(* makes: invocations of func and time.sleep(retry_interval).              *)
(***************************************************************************)
Returns(v) == [ok |-> TRUE, val |-> v]

Raises(x) == [ok |-> FALSE, val |-> x]

FuncBehaviours == [1..(MaxRetries + 1) -> {Returns("v1"), Returns("v2"), Raises("e1"), Raises("e2")}]

\* last_exception = None
NoException == "None"

NoOutcome == [kind |-> "none", val |-> "None"]

\* the number of invocations of func in a trace
Invocations(ev) == Len(SelectSeq(ev, LAMBDA x : x \in {"call_ok", "call_failed"}))

\* no call of retry_get_data is under way
RetryIdle ==
    /\ func = <<>>
    /\ max_retries = 0
    /\ attempt = 0
    /\ last_exception = NoException
    /\ e = NoException
    /\ events = <<>>
    /\ outcome = NoOutcome
    /\ rpc = "idle"

\* entry of retry_get_data: last_exception = None, the loop about to start
RetryInit ==
    /\ provider = [info |-> [ok |-> FALSE, dict |-> <<>>], bidask |-> [ok |-> FALSE, dict |-> <<>>],
                   hist90 |-> FetchFailed, hist365 |-> FetchFailed]
    /\ pc = "idle"
    /\ stock_info_dict = <<>>
    /\ bid_ask_dict = <<>>
    /\ hist_data_df = None
    /\ annual_hist_data_df = None
    /\ locals = <<>>
    /\ score_items = <<>>
    /\ score_total = 0
    /\ score_count = 0
    /\ result_sections = <<>>
    /\ func \in FuncBehaviours
    /\ max_retries \in 0..MaxRetries
    /\ attempt = 0
    /\ last_exception = NoException
    /\ e = NoException
    /\ events = <<>>
    /\ outcome = NoOutcome
    /\ rpc = "for"

\* for attempt in range(max_retries): try: return func(**kwargs)
RetryInvoke ==
    /\ rpc = "for"
    /\ attempt < max_retries
    /\ LET r == func[Invocations(events) + 1]
       IN  IF r.ok
           THEN /\ events' = Append(events, "call_ok")
                /\ outcome' = [kind |-> "returned", val |-> r.val]
                /\ rpc' = "returned"
                /\ e' = e
           ELSE /\ events' = Append(events, "call_failed")
                /\ outcome' = outcome
                /\ rpc' = "except"
                /\ e' = r.val
    /\ UNCHANGED <<func, max_retries, attempt, last_exception>>
    /\ UNCHANGED report_vars

\* SleepGate that also waits after the last attempt
SleepGateEveryFailure(a, m) == a < m

\* if attempt < max_retries - 1: the failed attempt a of m is followed by a wait
SleepGate(a, m) == a < m - 1

\* except Exception as e: last_exception = e; sleep unless this was the last attempt
RetryExcept ==
    /\ rpc = "except"
    /\ last_exception' = e
    /\ events' = IF SleepGate(attempt, max_retries) THEN Append(events, "sleep") ELSE events
    /\ attempt' = attempt + 1
    /\ rpc' = "for"
    /\ UNCHANGED <<func, max_retries, e, outcome>>
    /\ UNCHANGED report_vars

\* raise last_exception, the loop being exhausted; raise None is a TypeError
RetryRaise ==
    /\ rpc = "for"
    /\ ~(attempt < max_retries)
    /\ outcome' = [kind |-> "raised",
                   val |-> IF last_exception = NoException THEN "TypeError" ELSE last_exception]
    /\ rpc' = "raised"
    /\ UNCHANGED <<func, max_retries, attempt, last_exception, e, events>>
    /\ UNCHANGED report_vars

RetryNext ==
    \/ RetryInvoke
    \/ RetryExcept
    \/ RetryRaise

RetrySpec == RetryInit /\ [][RetryNext]_vars

(***************************************************************************)
(* get_one_stock_financial_data                                            *)
(***************************************************************************)
Empty(df) == Len(df.close) = 0

Assign(l, name, val) == (name :> val) @@ l

SeqMax(xs) == CHOOSE m \in {xs[i] : i \in 1..Len(xs)} : \A i \in 1..Len(xs) : xs[i] <= m

SeqMin(xs) == CHOOSE m \in {xs[i] : i \in 1..Len(xs)} : \A i \in 1..Len(xs) : xs[i] >= m

Last(xs) == xs[Len(xs)]

\* float(x) of a snapshot value: ok is false when it raises ValueError
ParseFloat(tok) ==
    CASE tok.kind = "num" -> [ok |-> TRUE, val |-> tok.val]
      [] tok.kind = "nan" -> [ok |-> TRUE, val |-> NaN]
      [] OTHER -> [ok |-> FALSE, val |-> NaN]

Init ==
    /\ provider \in ProviderStates
    /\ pc = "info"
    /\ stock_info_dict = <<>>
    /\ bid_ask_dict = <<>>
    /\ hist_data_df = None
    /\ annual_hist_data_df = None
    /\ locals = <<>>
    /\ score_items = <<>>
    /\ score_total = 0
    /\ score_count = 0
    /\ result_sections = <<>>
    /\ RetryIdle

\* 1. stock_individual_info_em
FetchInfo ==
    /\ pc = "info"
    /\ pc' = "bidask"
    /\ IF provider.info.ok
       THEN /\ stock_info_dict' = provider.info.dict
            /\ result_sections' = result_sections \o <<"info_header", "info_table">>
       ELSE /\ stock_info_dict' = <<>>
            /\ result_sections' = Append(result_sections, "info_failed")
    /\ UNCHANGED <<provider, bid_ask_dict, hist_data_df, annual_hist_data_df, locals,
                   score_items, score_total, score_count>>
    /\ UNCHANGED retry_vars

\* 3. stock_bid_ask_em
FetchBidAsk ==
    /\ pc = "bidask"
    /\ pc' = "hist90"
    /\ IF provider.bidask.ok
       THEN /\ bid_ask_dict' = provider.bidask.dict
            /\ result_sections' = result_sections \o <<"bidask_header", "bidask_table">>
       ELSE /\ bid_ask_dict' = <<>>
            /\ result_sections' = Append(result_sections, "bidask_failed")
    /\ UNCHANGED <<provider, stock_info_dict, hist_data_df, annual_hist_data_df, locals,
                   score_items, score_total, score_count>>
    /\ UNCHANGED retry_vars

\* 4. stock_zh_a_hist over the last 90 days
FetchHist90 ==
    /\ pc = "hist90"
    /\ pc' = "quantile"
    /\ IF provider.hist90.ok
       THEN LET df == provider.hist90.df
            IN  /\ hist_data_df' = df
                /\ result_sections' =
                       result_sections \o <<"hist_header", "hist_period", "hist_count">>
                       \o (IF Empty(df) THEN <<>>
                           ELSE <<"hist_first_price", "hist_last_price", "hist_change">>)
                /\ locals' =
                       IF Empty(df) THEN locals
                       ELSE Assign(locals, "price_change",
                                   FMul(Q(Last(df.close) - df.close[1], df.close[1]), Num(100)))
       ELSE /\ hist_data_df' = None
            /\ result_sections' = Append(result_sections, "hist_failed")
            /\ locals' = locals
    /\ UNCHANGED <<provider, stock_info_dict, bid_ask_dict, annual_hist_data_df,
                   score_items, score_total, score_count>>
    /\ UNCHANGED retry_vars

\* PriceQuantile measured against the low instead of the range
PriceQuantileOverMin(close_prices) ==
    LET latest_close == Last(close_prices)
        min_close == SeqMin(close_prices)
    IN  Q(latest_close - min_close, min_close)

\* quantile = (latest_close - min_close) / (max_close - min_close) if max_close > min_close else 0
PriceQuantile(close_prices) ==
    LET latest_close == Last(close_prices)
        max_close == SeqMax(close_prices)
        min_close == SeqMin(close_prices)
    IN  IF max_close > min_close
        THEN Q(latest_close - min_close, max_close - min_close)
        ELSE Num(0)

\* 4. position of the latest close between the period's low and high
Quantile ==
    /\ pc = "quantile"
    /\ pc' = "annual"
    /\ IF ~hist_data_df.none /\ ~Empty(hist_data_df)
       THEN /\ locals' = Assign(locals, "quantile", PriceQuantile(hist_data_df.close))
            /\ result_sections' =
                   result_sections \o <<"quantile_header", "quantile_range", "quantile_position">>
       ELSE UNCHANGED <<locals, result_sections>>
    /\ UNCHANGED <<provider, stock_info_dict, bid_ask_dict, hist_data_df, annual_hist_data_df,
                   score_items, score_total, score_count>>
    /\ UNCHANGED retry_vars

\* NeedsAnnualFetch that keeps any fetched 90-day series
NeedsAnnualFetchOnlyWhenMissing(df) == df.none

\* hist_data_df is None or len(hist_data_df) < 250
NeedsAnnualFetch(df) == df.none \/ Len(df.close) < AnnualMinRows

\* 6.1 the series the annual indicators are computed on
FetchAnnual ==
    /\ pc = "annual"
    /\ pc' = "valuation"
    /\ IF NeedsAnnualFetch(hist_data_df)
       THEN IF provider.hist365.ok
            THEN /\ annual_hist_data_df' = provider.hist365.df
                 /\ result_sections' = Append(result_sections, "deep_header")
            ELSE /\ annual_hist_data_df' = hist_data_df
                 /\ result_sections' = result_sections \o <<"deep_header", "annual_failed">>
       ELSE /\ annual_hist_data_df' = hist_data_df
            /\ result_sections' = Append(result_sections, "deep_header")
    /\ UNCHANGED <<provider, stock_info_dict, bid_ask_dict, hist_data_df, locals,
                   score_items, score_total, score_count>>
    /\ UNCHANGED retry_vars

\* PEAnalysis with the 15 boundary on the wrong side
PEAnalysisInclusive(pe_float) ==
    IF FLt(pe_float, Num(0)) THEN "loss_making"
    ELSE IF FLe(pe_float, Num(15)) THEN "low"
    ELSE IF FLt(pe_float, Num(30)) THEN "reasonable"
    ELSE IF FLt(pe_float, Num(50)) THEN "high"
    ELSE "extreme"

\* the PE label of section 6.2
PEAnalysis(pe_float) ==
    IF FLt(pe_float, Num(0)) THEN "loss_making"
    ELSE IF FLt(pe_float, Num(15)) THEN "low"
    ELSE IF FLe(Num(15), pe_float) /\ FLt(pe_float, Num(30)) THEN "reasonable"
    ELSE IF FLe(Num(30), pe_float) /\ FLt(pe_float, Num(50)) THEN "high"
    ELSE "extreme"

\* the PB label of section 6.2
PBAnalysis(pb_float) ==
    IF FLt(pb_float, Num(1)) THEN "below_book"
    ELSE IF FLe(Num(1), pb_float) /\ FLt(pb_float, Num(3)) THEN "reasonable"
    ELSE "high"

\* 6.2 PE and PB labels
Valuation ==
    /\ pc = "valuation"
    /\ pc' = "growth"
    /\ LET hasPE == DOMAIN stock_info_dict # {} /\ "PE" \in DOMAIN stock_info_dict
           hasPB == DOMAIN stock_info_dict # {} /\ "PB" \in DOMAIN stock_info_dict
           pe == IF hasPE THEN ParseFloat(stock_info_dict["PE"]) ELSE [ok |-> FALSE, val |-> NaN]
           pb == IF hasPB THEN ParseFloat(stock_info_dict["PB"]) ELSE [ok |-> FALSE, val |-> NaN]
           l1 == IF hasPE /\ pe.ok
                 THEN Assign(Assign(locals, "pe_float", pe.val), "pe_analysis", PEAnalysis(pe.val))
                 ELSE locals
           l2 == IF hasPB /\ pb.ok
                 THEN Assign(Assign(l1, "pb_float", pb.val), "pb_analysis", PBAnalysis(pb.val))
                 ELSE l1
       IN  /\ locals' = l2
           /\ result_sections' =
                  result_sections \o <<"profit_header">>
                  \o (IF ~hasPE THEN <<>> ELSE IF pe.ok THEN <<"pe_analysis">> ELSE <<"pe_failed">>)
                  \o (IF ~hasPB THEN <<>> ELSE IF pb.ok THEN <<"pb_analysis">> ELSE <<"pb_failed">>)
    /\ UNCHANGED <<provider, stock_info_dict, bid_ask_dict, hist_data_df, annual_hist_data_df,
                   score_items, score_total, score_count>>
    /\ UNCHANGED retry_vars

(***************************************************************************)
(* pandas Series statistics                                                *)
(***************************************************************************)
\* Series.dropna()
DropNa(xs) == SelectSeq(xs, LAMBDA x : ~x.nan)

\* Series / 100
Div100(xs) == [i \in 1..Len(xs) |-> FDiv(xs[i], Num(100))]

\* the one element of a singleton set (binds a value that is computed once)
The(S) == CHOOSE x \in S : TRUE

\* the sum of xs[i..j], by halves
RECURSIVE FSumTo(_, _, _)
FSumTo(xs, i, j) ==
    IF i > j THEN Num(0)
    ELSE IF i = j THEN xs[i]
    ELSE FAdd(FSumTo(xs, i, (i + j) \div 2), FSumTo(xs, (i + j) \div 2 + 1, j))

\* Series.sum()
FSum(xs) == FSumTo(xs, 1, Len(xs))

\* Series.mean(): NaN for an empty series
FMean(xs) == IF Len(xs) = 0 THEN NaN ELSE FDiv(FSum(xs), Num(Len(xs)))

\* sum of squared deviations of xs from m
SqDev(xs, m) == FSum([i \in 1..Len(xs) |-> FMul(FSub(xs[i], m), FSub(xs[i], m))])

\* Series.std() squared: the sample variance (ddof = 1), NaN below two values
FVar(xs) ==
    IF Len(xs) < 2 THEN NaN
    ELSE The({FDiv(SqDev(xs, m), Num(Len(xs) - 1)) : m \in {FMean(xs)}})

\* A float that is a square root in the code: the value sign * sqrt(sq).
Surd(sign, sq) == [nan |-> sq.nan, sign |-> IF sq.nan \/ sq.n = 0 THEN 0 ELSE sign, sq |-> sq]

Sign(a) == IF a.n > 0 THEN 1 ELSE IF a.n < 0 THEN -1 ELSE 0

\* the rational a as such a value
SurdOf(a) == IF a.nan THEN Surd(0, NaN) ELSE Surd(Sign(a), FMul(a, a))

\* s < q for a rational q; false when s is NaN
SLt(s, q) ==
    /\ ~s.nan
    /\ IF q.n >= 0
       THEN s.sign < 0 \/ FLt(s.sq, FMul(q, q))
       ELSE s.sign < 0 /\ FGt(s.sq, FMul(q, q))

\* s >= q; false when s is NaN
SGe(s, q) == ~s.nan /\ ~SLt(s, q)

\* s > q; false when s is NaN
SGt(s, q) ==
    /\ ~s.nan
    /\ IF q.n >= 0
       THEN s.sign > 0 /\ FGt(s.sq, FMul(q, q))
       ELSE s.sign >= 0 \/ FLt(s.sq, FMul(q, q))

\* volatility = returns.std() * (252 ** 0.5)
Volatility(returns) == Surd(1, FMul(FVar(returns), Num(252)))

\* SharpeRatio without the risk-free rate
SharpeRatioNoRiskFree(returns, volatility) ==
    LET excess == FMul(FMean(returns), Num(252))
    IN  IF SGt(volatility, Num(0))
        THEN Surd(Sign(excess), FDiv(FMul(excess, excess), volatility.sq))
        ELSE SurdOf(Num(0))

\* sharpe_ratio = (avg_annual_return - risk_free_rate) / volatility if volatility > 0 else 0
SharpeRatio(returns, volatility) ==
    LET risk_free_rate == Q(3, 100)
        avg_annual_return == FMul(FMean(returns), Num(252))
        excess == FSub(avg_annual_return, risk_free_rate)
    IN  IF SGt(volatility, Num(0))
        THEN Surd(Sign(excess), FDiv(FMul(excess, excess), volatility.sq))
        ELSE SurdOf(Num(0))

\* the label of the one-year price change
ReturnAnalysis(annual_return) ==
    IF FGt(annual_return, Num(30)) THEN "strong"
    ELSE IF FLe(Num(10), annual_return) /\ FLe(annual_return, Num(30)) THEN "good"
    ELSE IF FLe(Num(0), annual_return) /\ FLt(annual_return, Num(10)) THEN "mild_gain"
    ELSE IF FLe(Num(-10), annual_return) /\ FLt(annual_return, Num(0)) THEN "mild_loss"
    ELSE "poor"

\* the volatility label of section 6.3
VolAnalysis(volatility) ==
    IF SLt(volatility, Num(20)) THEN "low"
    ELSE IF SGe(volatility, Num(20)) /\ SLt(volatility, Num(30)) THEN "moderate"
    ELSE IF SGe(volatility, Num(30)) /\ SLt(volatility, Num(40)) THEN "elevated"
    ELSE "high_risk"

\* the Sharpe label of section 6.3
SharpeAnalysis(sharpe_ratio) ==
    IF SLt(sharpe_ratio, Num(0)) THEN "negative"
    ELSE IF SGe(sharpe_ratio, Num(0)) /\ SLt(sharpe_ratio, Q(1, 2)) THEN "poor"
    ELSE IF SGe(sharpe_ratio, Q(1, 2)) /\ SLt(sharpe_ratio, Num(1)) THEN "fair"
    ELSE IF SGe(sharpe_ratio, Num(1)) /\ SLt(sharpe_ratio, Num(2)) THEN "good"
    ELSE "excellent"

\* VolatilityGate with a ten-row threshold
VolatilityGateLoose(df) == Len(df.close) > 10

\* len(annual_hist_data_df) > 20, the gate of the volatility and Sharpe blocks
VolatilityGate(df) == Len(df.close) > 20

\* 6.3 annual return, annualized volatility and Sharpe ratio
Growth ==
    /\ pc = "growth"
    /\ pc' = "liquidity"
    /\ LET df == annual_hist_data_df
           on == ~df.none /\ ~Empty(df)
           doReturn == on /\ Len(df.close) > 1
           doVol == on /\ VolatilityGate(df)
           doSharpe == on /\ VolatilityGate(df)
                       /\ (doVol \/ "returns" \in DOMAIN locals)
                       /\ (doVol \/ "volatility" \in DOMAIN locals)
       IN  \E annual_return \in
                  {IF doReturn
                   THEN FMul(Q(Last(df.close) - df.close[1], df.close[1]), Num(100))
                   ELSE NaN} :
           \E returns \in {IF doVol THEN Div100(DropNa(df.pct)) ELSE <<>>} :
           \E volatility \in {Volatility(returns)} :
           \E sharpe_ratio \in {SharpeRatio(returns, volatility)} :
               LET l1 == IF doReturn
                         THEN Assign(Assign(locals, "annual_return", annual_return),
                                     "return_analysis", ReturnAnalysis(annual_return))
                         ELSE locals
                   l2 == IF doVol
                         THEN Assign(Assign(Assign(l1, "returns", returns),
                                            "volatility", volatility),
                                     "vol_analysis", VolAnalysis(volatility))
                         ELSE l1
                   l3 == IF doSharpe
                         THEN Assign(Assign(l2, "sharpe_ratio", sharpe_ratio),
                                     "sharpe_analysis", SharpeAnalysis(sharpe_ratio))
                         ELSE l2
               IN  /\ locals' = l3
                   /\ result_sections' =
                          result_sections \o <<"growth_header">>
                          \o (IF doReturn THEN <<"annual_return", "return_analysis">> ELSE <<>>)
                          \o (IF doVol THEN <<"volatility", "vol_analysis">> ELSE <<>>)
                          \o (IF doSharpe THEN <<"sharpe_ratio", "sharpe_analysis">> ELSE <<>>)
    /\ UNCHANGED <<provider, stock_info_dict, bid_ask_dict, hist_data_df, annual_hist_data_df,
                   score_items, score_total, score_count>>
    /\ UNCHANGED retry_vars

\* the turnover-rate label of section 6.4
TurnoverAnalysis(turnover_float) ==
    IF FLt(turnover_float, Num(1)) THEN "inactive"
    ELSE IF FLe(Num(1), turnover_float) /\ FLt(turnover_float, Num(3)) THEN "normal"
    ELSE IF FLe(Num(3), turnover_float) /\ FLt(turnover_float, Num(7)) THEN "active"
    ELSE "extreme"

\* VolRatioAnalysis with the 0.8 boundary on the wrong side
VolRatioAnalysisInclusive(vol_ratio_float) ==
    IF FLe(vol_ratio_float, Q(8, 10)) THEN "depressed"
    ELSE IF FLt(vol_ratio_float, Num(1)) THEN "below_average"
    ELSE IF FLt(vol_ratio_float, Num(2)) THEN "normal"
    ELSE IF FLt(vol_ratio_float, Num(3)) THEN "active"
    ELSE "abnormal_surge"

\* the volume-ratio label of section 6.4
VolRatioAnalysis(vol_ratio_float) ==
    IF FLt(vol_ratio_float, Q(8, 10)) THEN "depressed"
    ELSE IF FLe(Q(8, 10), vol_ratio_float) /\ FLt(vol_ratio_float, Num(1)) THEN "below_average"
    ELSE IF FLe(Num(1), vol_ratio_float) /\ FLt(vol_ratio_float, Num(2)) THEN "normal"
    ELSE IF FLe(Num(2), vol_ratio_float) /\ FLt(vol_ratio_float, Num(3)) THEN "active"
    ELSE "abnormal_surge"

\* 6.4 turnover-rate and volume-ratio labels
Liquidity ==
    /\ pc = "liquidity"
    /\ pc' = "technical"
    /\ LET hasT == DOMAIN bid_ask_dict # {} /\ "turnover" \in DOMAIN bid_ask_dict
           hasV == DOMAIN bid_ask_dict # {} /\ "volume_ratio" \in DOMAIN bid_ask_dict
           t == IF hasT THEN ParseFloat(bid_ask_dict["turnover"]) ELSE [ok |-> FALSE, val |-> NaN]
           v == IF hasV THEN ParseFloat(bid_ask_dict["volume_ratio"])
                ELSE [ok |-> FALSE, val |-> NaN]
           l1 == IF hasT /\ t.ok
                 THEN Assign(Assign(locals, "turnover_float", t.val),
                             "turnover_analysis", TurnoverAnalysis(t.val))
                 ELSE locals
           l2 == IF hasV /\ v.ok
                 THEN Assign(Assign(l1, "vol_ratio_float", v.val),
                             "vol_ratio_analysis", VolRatioAnalysis(v.val))
                 ELSE l1
       IN  /\ locals' = l2
           /\ result_sections' =
                  result_sections \o <<"liquidity_header">>
                  \o (IF ~hasT THEN <<>> ELSE IF t.ok THEN <<"turnover_analysis">>
                      ELSE <<"turnover_failed">>)
                  \o (IF ~hasV THEN <<>> ELSE IF v.ok THEN <<"vol_ratio_analysis">>
                      ELSE <<"vol_ratio_failed">>)
    /\ UNCHANGED <<provider, stock_info_dict, bid_ask_dict, hist_data_df, annual_hist_data_df,
                   score_items, score_total, score_count>>
    /\ UNCHANGED retry_vars

(***************************************************************************)
(* 6.5 moving averages and MACD                                            *)
(***************************************************************************)
\* the sum of xs[i..j], by halves
RECURSIVE SumFrom(_, _, _)
SumFrom(xs, i, j) ==
    IF i > j THEN 0
    ELSE IF i = j THEN xs[i]
    ELSE SumFrom(xs, i, (i + j) \div 2) + SumFrom(xs, (i + j) \div 2 + 1, j)

\* Series.rolling(window).mean() at the latest row: NaN below window rows
RollingMeanLast(close, window) ==
    IF Len(close) < window THEN NaN
    ELSE Q(SumFrom(close, Len(close) - window + 1, Len(close)), window)

\* Series.ewm(span, adjust=False).mean(): y[1] = x[1],
\* y[t] = (1 - alpha) * y[t-1] + alpha * x[t] with alpha = 2 / (span + 1)
\* EwmTo(ys, xs, span, i, j) extends ys = y[1..i-1] by the rows i..j, in row
\* order; the rows are walked by halves to keep the evaluation shallow.
RECURSIVE EwmTo(_, _, _, _, _)
EwmTo(ys, xs, span, i, j) ==
    IF i > j THEN ys
    ELSE IF i = j
    THEN Append(ys, IF i = 1 THEN xs[1]
                    ELSE FAdd(FMul(Q(span - 1, span + 1), ys[i - 1]),
                              FMul(Q(2, span + 1), xs[i])))
    ELSE The({EwmTo(left, xs, span, (i + j) \div 2 + 1, j)
              : left \in {EwmTo(ys, xs, span, i, (i + j) \div 2)}})

Ewm(xs, span) == EwmTo(<<>>, xs, span, 1, Len(xs))

\* the DIF and DEA columns at the latest row
LatestMacd(close) ==
    LET px == [i \in 1..Len(close) |-> Num(close[i])]
    IN  The({The({[DIF |-> Last(DIF), DEA |-> Last(Ewm(DIF, 9))]
                  : DIF \in {[i \in 1..Len(close) |-> FSub(EMA12[i], EMA26[i])]}})
             : EMA12 \in {Ewm(px, 12)}, EMA26 \in {Ewm(px, 26)}})

\* MaTrend with equal averages counted as aligned
MaTrendWeak(MA5, MA10, MA20) ==
    IF FGe(MA5, MA10) /\ FGe(MA10, MA20) THEN "bullish_aligned"
    ELSE IF FLe(MA5, MA10) /\ FLe(MA10, MA20) THEN "bearish_aligned"
    ELSE "mixed"

\* the label of the MA5 / MA10 / MA20 order
MaTrend(MA5, MA10, MA20) ==
    IF FGt(MA5, MA10) /\ FGt(MA10, MA20) THEN "bullish_aligned"
    ELSE IF FLt(MA5, MA10) /\ FLt(MA10, MA20) THEN "bearish_aligned"
    ELSE "mixed"

\* The six macd_signal strings, one token per character (the code tests them
\* with the substring operator): jin1 cha = golden cross, si cha = dead cross,
\* qiang lie = strong, ruo = weak, mai3 ru = buy, mai4 chu = sell,
\* xin hao = signal, dan xu jin3 shen = but be cautious.
MacdStrongBuy ==
    <<"M", "A", "C", "D", "jin1", "cha", "qie", "zai", "ling", "zhou", "shang", "fang", ",",
      "qiang", "lie", "mai3", "ru", "xin", "hao">>

MacdCautiousBuy ==
    <<"M", "A", "C", "D", "jin1", "cha", "dan", "reng", "zai", "ling", "zhou", "xia", "fang", ",",
      "mai3", "ru", "xin", "hao", "dan", "xu", "jin3", "shen">>

MacdWeakBuy ==
    <<"M", "A", "C", "D", "jin1", "cha", "dan", "zai", "ling", "zhou", "xia", "fang", ",",
      "ruo", "mai3", "ru", "xin", "hao">>

MacdStrongSell ==
    <<"M", "A", "C", "D", "si", "cha", "qie", "zai", "ling", "zhou", "xia", "fang", ",",
      "qiang", "lie", "mai4", "chu", "xin", "hao">>

MacdCautiousSell ==
    <<"M", "A", "C", "D", "si", "cha", "dan", "reng", "zai", "ling", "zhou", "shang", "fang", ",",
      "mai4", "chu", "xin", "hao", "dan", "xu", "jin3", "shen">>

MacdWeakSell ==
    <<"M", "A", "C", "D", "si", "cha", "dan", "zai", "ling", "zhou", "shang", "fang", ",",
      "ruo", "mai4", "chu", "xin", "hao">>

\* the macd_signal of the latest DIF and DEA
MacdSignal(DIF, DEA) ==
    IF FGt(DIF, DEA)
    THEN IF FGt(DIF, Num(0)) /\ FGt(DEA, Num(0)) THEN MacdStrongBuy
         ELSE IF FGt(DIF, Num(0)) /\ FLt(DEA, Num(0)) THEN MacdCautiousBuy
         ELSE MacdWeakBuy
    ELSE IF FLt(DIF, Num(0)) /\ FLt(DEA, Num(0)) THEN MacdStrongSell
         ELSE IF FLt(DIF, Num(0)) /\ FGt(DEA, Num(0)) THEN MacdCautiousSell
         ELSE MacdWeakSell

\* TechnicalGate with a ten-row threshold
TechnicalGateLoose(df) == Len(df.close) >= 10

\* len(annual_hist_data_df) >= 20, the gate of the whole technical block
TechnicalGate(df) == Len(df.close) >= 20

\* 6.5 moving averages, MA alignment and MACD signal
Technical ==
    /\ pc = "technical"
    /\ pc' = "scoring"
    /\ LET df == annual_hist_data_df
           on == ~df.none /\ ~Empty(df) /\ TechnicalGate(df)
       IN  IF on
           THEN \E latest \in {[MA5 |-> RollingMeanLast(df.close, 5),
                                MA10 |-> RollingMeanLast(df.close, 10),
                                MA20 |-> RollingMeanLast(df.close, 20),
                                MA60 |-> IF Len(df.close) >= 60
                                         THEN RollingMeanLast(df.close, 60) ELSE NaN]} :
                \E latest_macd \in {LatestMacd(df.close)} :
                    LET hasMA60 == Len(df.close) >= 60 /\ ~latest.MA60.nan
                        hasTrend == ~latest.MA5.nan /\ ~latest.MA10.nan /\ ~latest.MA20.nan
                        l1 == Assign(Assign(locals, "latest", latest), "latest_macd", latest_macd)
                        l2 == IF hasTrend
                              THEN Assign(l1, "ma_trend",
                                          MaTrend(latest.MA5, latest.MA10, latest.MA20))
                              ELSE l1
                    IN  /\ locals' = Assign(l2, "macd_signal",
                                            MacdSignal(latest_macd.DIF, latest_macd.DEA))
                        /\ result_sections' =
                               result_sections
                               \o <<"tech_header", "latest_close", "ma5", "ma10", "ma20">>
                               \o (IF hasMA60 THEN <<"ma60">> ELSE <<>>)
                               \o (IF hasTrend THEN <<"ma_trend">> ELSE <<>>)
                               \o <<"macd_values", "macd_signal">>
           ELSE /\ locals' = locals
                /\ result_sections' = Append(result_sections, "tech_header")
    /\ UNCHANGED <<provider, stock_info_dict, bid_ask_dict, hist_data_df, annual_hist_data_df,
                   score_items, score_total, score_count>>
    /\ UNCHANGED retry_vars

(***************************************************************************)
(* 6.7 composite score                                                     *)
(***************************************************************************)
\* PEScore on the buckets of the PE label
PEScoreByLabel(pe) ==
    IF FLt(pe, Num(0)) THEN 0
    ELSE IF FLt(pe, Num(15)) THEN 90
    ELSE IF FLt(pe, Num(30)) THEN 60
    ELSE IF FLt(pe, Num(50)) THEN 40
    ELSE 20

\* pe_score of the PE scoring block
PEScore(pe) ==
    IF FLe(pe, Num(0)) THEN 0
    ELSE IF FLt(pe, Num(10)) THEN 90
    ELSE IF FLe(Num(10), pe) /\ FLt(pe, Num(20)) THEN 80
    ELSE IF FLe(Num(20), pe) /\ FLt(pe, Num(30)) THEN 60
    ELSE IF FLe(Num(30), pe) /\ FLt(pe, Num(50)) THEN 40
    ELSE 20

PBScore(pb) ==
    IF FLt(pb, Num(1)) THEN 85
    ELSE IF FLe(Num(1), pb) /\ FLt(pb, Num(2)) THEN 80
    ELSE IF FLe(Num(2), pb) /\ FLt(pb, Num(4)) THEN 60
    ELSE 40

TechScore(ma_trend) ==
    IF ma_trend = "bullish_aligned" THEN 80
    ELSE IF ma_trend = "bearish_aligned" THEN 40
    ELSE 60

\* Python's `sub in s` on strings
Contains(sub, s) ==
    \E i \in 0..(Len(s) - Len(sub)) : \A k \in 1..Len(sub) : s[i + k] = sub[k]

MacdScore(macd_signal) ==
    IF Contains(<<"qiang", "lie", "mai3", "ru">>, macd_signal) THEN 85
    ELSE IF Contains(<<"mai3", "ru">>, macd_signal) THEN 75
    ELSE IF Contains(<<"ruo", "mai3", "ru">>, macd_signal) THEN 65
    ELSE IF Contains(<<"qiang", "lie", "mai4", "chu">>, macd_signal) THEN 25
    ELSE IF Contains(<<"mai4", "chu">>, macd_signal) THEN 35
    ELSE 45

VolScore(volatility) ==
    IF SLt(volatility, Num(20)) THEN 80
    ELSE IF SGe(volatility, Num(20)) /\ SLt(volatility, Num(30)) THEN 70
    ELSE IF SGe(volatility, Num(30)) /\ SLt(volatility, Num(40)) THEN 50
    ELSE 30

SharpeScore(sharpe_ratio) ==
    IF SLt(sharpe_ratio, Num(0)) THEN 30
    ELSE IF SGe(sharpe_ratio, Num(0)) /\ SLt(sharpe_ratio, Q(1, 2)) THEN 50
    ELSE IF SGe(sharpe_ratio, Q(1, 2)) /\ SLt(sharpe_ratio, Num(1)) THEN 65
    ELSE IF SGe(sharpe_ratio, Num(1)) /\ SLt(sharpe_ratio, Num(2)) THEN 80
    ELSE 90

\* InvestmentAdvice with the top tier starting strictly above 80
InvestmentAdviceStrict(total_score) ==
    IF FGt(total_score, Num(80)) THEN "high_quality"
    ELSE IF FLe(Num(70), total_score) /\ FLe(total_score, Num(80)) THEN "good"
    ELSE IF FLe(Num(60), total_score) /\ FLt(total_score, Num(70)) THEN "average"
    ELSE IF FLe(Num(50), total_score) /\ FLt(total_score, Num(60)) THEN "caution"
    ELSE "not_recommended"

\* the recommendation tier of the composite
InvestmentAdvice(total_score) ==
    IF FGe(total_score, Num(80)) THEN "high_quality"
    ELSE IF FLe(Num(70), total_score) /\ FLt(total_score, Num(80)) THEN "good"
    ELSE IF FLe(Num(60), total_score) /\ FLt(total_score, Num(70)) THEN "average"
    ELSE IF FLe(Num(50), total_score) /\ FLt(total_score, Num(60)) THEN "caution"
    ELSE "not_recommended"

\* SubScores with the PE and PB blocks under one try: a PE that float()
\* rejects also drops the PB sub-score
SubScoresOneTry(dict, l) ==
    LET pe == IF "PE" \in DOMAIN dict THEN ParseFloat(dict["PE"]) ELSE [ok |-> TRUE, val |-> NaN]
        pb == IF "PB" \in DOMAIN dict THEN ParseFloat(dict["PB"]) ELSE [ok |-> FALSE, val |-> NaN]
    IN  (IF "PE" \in DOMAIN dict /\ pe.ok
         THEN <<[name |-> "pe", score |-> PEScore(pe.val)]>> ELSE <<>>)
        \o (IF pe.ok /\ pb.ok THEN <<[name |-> "pb", score |-> PBScore(pb.val)]>> ELSE <<>>)
        \o (IF "ma_trend" \in DOMAIN l
            THEN <<[name |-> "tech", score |-> TechScore(l["ma_trend"])]>> ELSE <<>>)
        \o (IF "macd_signal" \in DOMAIN l
            THEN <<[name |-> "macd", score |-> MacdScore(l["macd_signal"])]>> ELSE <<>>)
        \o (IF "volatility" \in DOMAIN l
            THEN <<[name |-> "vol", score |-> VolScore(l["volatility"])]>> ELSE <<>>)
        \o (IF "sharpe_ratio" \in DOMAIN l
            THEN <<[name |-> "sharpe", score |-> SharpeScore(l["sharpe_ratio"])]>> ELSE <<>>)

\* the sub-scores in the order the code appends them; a snapshot value that
\* float() rejects is skipped by the bare except
SubScores(dict, l) ==
    LET pe == IF "PE" \in DOMAIN dict THEN ParseFloat(dict["PE"]) ELSE [ok |-> FALSE, val |-> NaN]
        pb == IF "PB" \in DOMAIN dict THEN ParseFloat(dict["PB"]) ELSE [ok |-> FALSE, val |-> NaN]
    IN  (IF pe.ok THEN <<[name |-> "pe", score |-> PEScore(pe.val)]>> ELSE <<>>)
        \o (IF pb.ok THEN <<[name |-> "pb", score |-> PBScore(pb.val)]>> ELSE <<>>)
        \o (IF "ma_trend" \in DOMAIN l
            THEN <<[name |-> "tech", score |-> TechScore(l["ma_trend"])]>> ELSE <<>>)
        \o (IF "macd_signal" \in DOMAIN l
            THEN <<[name |-> "macd", score |-> MacdScore(l["macd_signal"])]>> ELSE <<>>)
        \o (IF "volatility" \in DOMAIN l
            THEN <<[name |-> "vol", score |-> VolScore(l["volatility"])]>> ELSE <<>>)
        \o (IF "sharpe_ratio" \in DOMAIN l
            THEN <<[name |-> "sharpe", score |-> SharpeScore(l["sharpe_ratio"])]>> ELSE <<>>)

RECURSIVE ScoreSum(_)
ScoreSum(items) == IF Len(items) = 0 THEN 0 ELSE items[1].score + ScoreSum(Tail(items))

\* score_total += score for every item
ScoreTotal(items) == ScoreSum(items)

\* ScoreCount with the increment missing from the PB block
ScoreCountSkipsPB(items) == Len(SelectSeq(items, LAMBDA it : it.name # "pb"))

\* score_count += 1 for every item
ScoreCount(items) == Len(items)

\* if score_count > 0
HasComposite(count) == count > 0

\* 6.7 sub-scores, composite and recommendation
Scoring ==
    /\ pc = "scoring"
    /\ pc' = "disclaimer"
    /\ \E items \in {SubScores(stock_info_dict, locals)} :
       \E total \in {ScoreTotal(items)} :
       \E count \in {ScoreCount(items)} :
           /\ score_items' = items
           /\ score_total' = total
           /\ score_count' = count
           /\ IF HasComposite(count)
              THEN \E total_score \in {Q(total, count)} :
                       /\ locals' = Assign(Assign(locals, "total_score", total_score),
                                           "investment_advice", InvestmentAdvice(total_score))
                       /\ result_sections' =
                              result_sections \o <<"score_header">>
                              \o [i \in 1..Len(items) |-> "score_item"]
                              \o <<"total_score", "investment_advice">>
              ELSE /\ locals' = locals
                   /\ result_sections' =
                          result_sections \o <<"score_header">>
                          \o [i \in 1..Len(items) |-> "score_item"]
    /\ UNCHANGED <<provider, stock_info_dict, bid_ask_dict, hist_data_df, annual_hist_data_df>>
    /\ UNCHANGED retry_vars

\* the disclaimer, then return "\n".join(result_sections)
Return ==
    /\ pc = "disclaimer"
    /\ pc' = "done"
    /\ result_sections' = Append(result_sections, "disclaimer")
    /\ UNCHANGED <<provider, stock_info_dict, bid_ask_dict, hist_data_df, annual_hist_data_df,
                   locals, score_items, score_total, score_count>>
    /\ UNCHANGED retry_vars

Next ==
    \/ FetchInfo
    \/ FetchBidAsk
    \/ FetchHist90
    \/ Quantile
    \/ FetchAnnual
    \/ Valuation
    \/ Growth
    \/ Liquidity
    \/ Technical
    \/ Scoring
    \/ Return

Spec == Init /\ [][Next]_vars

(***************************************************************************)
(* Properties                                                              *)
(***************************************************************************)
Scored == pc \in {"disclaimer", "done"}

Done == pc = "done"

HasItem(name) == \E i \in 1..Len(score_items) : score_items[i].name = name

ItemScore(name) == score_items[CHOOSE i \in 1..Len(score_items) : score_items[i].name = name].score

HasLine(tag) == \E i \in 1..Len(result_sections) : result_sections[i] = tag

Defined(name) == name \in DOMAIN locals

\* the price series the annual indicators were computed on has fewer than k rows
SeriesShorterThan(k) == annual_hist_data_df.none \/ Len(annual_hist_data_df.close) < k

\* C1: once scoring has run, the composite is the arithmetic mean of the produced
\* sub-scores and lies in [0,100] when at least one sub-score was produced; with
\* no sub-score, no composite and no recommendation tier is emitted.
C1_CompositeIsMeanInRange ==
    Scored =>
        IF Len(score_items) > 0
        THEN /\ Defined("total_score") /\ Defined("investment_advice")
             /\ HasLine("total_score") /\ HasLine("investment_advice")
             /\ ~locals["total_score"].nan
             /\ locals["total_score"].n * Len(score_items)
                    = ScoreSum(score_items) * locals["total_score"].d
             /\ 0 <= locals["total_score"].n
             /\ locals["total_score"].n <= 100 * locals["total_score"].d
        ELSE /\ ~Defined("total_score") /\ ~Defined("investment_advice")
             /\ ~HasLine("total_score") /\ ~HasLine("investment_advice")

\* C1 witness: a finished report where some indicators are available (PB, MA
\* alignment, MACD) and others are not (PE, volatility, Sharpe)
C1_Witness ==
    /\ Done
    /\ HasItem("pb") /\ HasItem("tech") /\ HasItem("macd")
    /\ ~HasItem("pe") /\ ~HasItem("vol") /\ ~HasItem("sharpe")
    /\ locals["total_score"].d # 1

\* the PE bucket of the threshold table, on the value n/d
PEBucket(x) ==
    IF x.n < 0 THEN "loss_making"
    ELSE IF x.n < 15 * x.d THEN "low"
    ELSE IF x.n < 30 * x.d THEN "reasonable"
    ELSE IF x.n < 50 * x.d THEN "high"
    ELSE "extreme"

\* C2: every numeric PE gets the one label of its bucket: <0 loss-making,
\* [0,15) low, [15,30) reasonable, [30,50) high, >=50 extreme; 0, 15, 30 and 50
\* belong to the bucket they open.
C2_PELabelBuckets ==
    (Defined("pe_float") /\ ~locals["pe_float"].nan) =>
        /\ Defined("pe_analysis")
        /\ locals["pe_analysis"] = PEBucket(locals["pe_float"])

\* C2 witness: the boundary PE = 15 was classified as reasonable
C2_Witness ==
    /\ Done
    /\ Defined("pe_float")
    /\ locals["pe_float"] = Num(15)
    /\ locals["pe_analysis"] = "reasonable"

\* the recommendation tier of the composite n/d, by the tier table
TierOf(x) ==
    IF x.n >= 80 * x.d THEN "high_quality"
    ELSE IF x.n >= 70 * x.d THEN "good"
    ELSE IF x.n >= 60 * x.d THEN "average"
    ELSE IF x.n >= 50 * x.d THEN "caution"
    ELSE "not_recommended"

\* C3: the composite maps to exactly one tier: >=80 high quality, [70,80) good,
\* [60,70) average, [50,60) caution, <50 not recommended; 80, 70, 60 and 50 fall
\* in the tier they open.
C3_TierOfComposite ==
    Defined("total_score") =>
        /\ Defined("investment_advice")
        /\ locals["investment_advice"] = TierOf(locals["total_score"])

\* C3 witness: a composite of exactly 80 built from several sub-scores was
\* rated high quality
C3_Witness ==
    /\ Done
    /\ Defined("total_score")
    /\ locals["total_score"] = Num(80)
    /\ score_count >= 2
    /\ locals["investment_advice"] = "high_quality"

\* the snapshot and both price series are empty or could not be fetched
NoInputs ==
    /\ DOMAIN stock_info_dict = {}
    /\ hist_data_df.none \/ Empty(hist_data_df)
    /\ annual_hist_data_df.none \/ Empty(annual_hist_data_df)

\* the report lines of section 6.7, between its header and the disclaimer
ScoreSectionLines ==
    LET h == CHOOSE i \in 1..Len(result_sections) : result_sections[i] = "score_header"
        d == CHOOSE i \in 1..Len(result_sections) : result_sections[i] = "disclaimer"
    IN  SubSeq(result_sections, h + 1, d - 1)

\* C4: with an empty snapshot and an empty price series the function returns
\* with zero sub-scores and no composite, and the score section of the report
\* says that the score is unavailable.
C4_NoInputsReportedUnavailable ==
    (Done /\ NoInputs) =>
        /\ score_count = 0
        /\ ~Defined("total_score")
        /\ ScoreSectionLines # <<>>

\* C5: for a price series of fewer than 20 rows no volatility or Sharpe value,
\* label, report line or sub-score is ever produced.
C5_ShortSeriesNoVolatilityNoSharpe ==
    (pc \notin {"info", "bidask", "hist90", "quantile", "annual"} /\ SeriesShorterThan(20)) =>
        /\ ~Defined("volatility") /\ ~Defined("vol_analysis")
        /\ ~Defined("sharpe_ratio") /\ ~Defined("sharpe_analysis")
        /\ ~HasLine("volatility") /\ ~HasLine("vol_analysis")
        /\ ~HasLine("sharpe_ratio") /\ ~HasLine("sharpe_analysis")
        /\ ~HasItem("vol") /\ ~HasItem("sharpe")

\* C5 witness: a finished report over a 19-row series
C5_Witness ==
    /\ Done
    /\ ~annual_hist_data_df.none
    /\ Len(annual_hist_data_df.close) = 19
    /\ Defined("annual_return")
    /\ ~Defined("volatility")

\* C6: for a price series of at least 20 rows (exactly 20 included) a
\* volatility value, label and sub-score are produced.
C6_VolatilityFromTwentyRows ==
    (Done /\ ~SeriesShorterThan(20)) =>
        /\ Defined("volatility") /\ Defined("vol_analysis")
        /\ HasItem("vol")

\* the volatility bucket of the threshold table, read on the percent value
\* p = 100 * volatility (volatility is computed from percent returns / 100)
PercentVolBucket(volatility) ==
    IF SLt(volatility, Q(20, 100)) THEN [label |-> "low", score |-> 80]
    ELSE IF SLt(volatility, Q(30, 100)) THEN [label |-> "moderate", score |-> 70]
    ELSE IF SLt(volatility, Q(40, 100)) THEN [label |-> "elevated", score |-> 50]
    ELSE [label |-> "high_risk", score |-> 30]

\* C7: the 20/30/40 thresholds are applied to the annualized volatility in
\* percent: a series whose volatility is p percent gets the label and sub-score
\* of the bucket containing p.
C7_VolatilityThresholdsInPercent ==
    (Scored /\ Defined("volatility") /\ ~locals["volatility"].nan) =>
        /\ locals["vol_analysis"] = PercentVolBucket(locals["volatility"]).label
        /\ ItemScore("vol") = PercentVolBucket(locals["volatility"]).score

NumericValues(tokens) == {t.val : t \in {u \in tokens : u.kind = "num"}}

\* C8: the PE and PB sub-scores are functions of the label: every value with
\* the label of the scored value has the sub-score of the scored value.
C8_SubScoreFunctionOfLabel ==
    Scored =>
        /\ (Defined("pe_analysis") /\ HasItem("pe")) =>
               \A x \in NumericValues(PETokens) :
                   PEAnalysis(x) = locals["pe_analysis"] => PEScore(x) = ItemScore("pe")
        /\ (Defined("pb_analysis") /\ HasItem("pb")) =>
               \A x \in NumericValues(PBTokens) :
                   PBAnalysis(x) = locals["pb_analysis"] => PBScore(x) = ItemScore("pb")

BuySignals == {MacdStrongBuy, MacdCautiousBuy, MacdWeakBuy}

SellSignals == {MacdStrongSell, MacdCautiousSell, MacdWeakSell}

\* C9: the MACD signal is a buy label exactly when DIF > DEA and a sell label
\* exactly when DIF < DEA; in a golden cross it is strong buy if both are
\* positive, cautious buy if DIF > 0 > DEA, else weak buy; in a dead cross strong
\* sell if both are negative, cautious sell if DIF < 0 < DEA, else weak sell.
C9_MacdSignalTable ==
    Defined("macd_signal") =>
        LET DIF == locals["latest_macd"].DIF
            DEA == locals["latest_macd"].DEA
            sig == locals["macd_signal"]
            zero == Num(0)
        IN  /\ (sig \in BuySignals) <=> FGt(DIF, DEA)
            /\ (sig \in SellSignals) <=> FLt(DIF, DEA)
            /\ FGt(DIF, DEA) =>
                   sig = IF FGt(DIF, zero) /\ FGt(DEA, zero) THEN MacdStrongBuy
                         ELSE IF FGt(DIF, zero) /\ FLt(DEA, zero) THEN MacdCautiousBuy
                         ELSE MacdWeakBuy
            /\ FLt(DIF, DEA) =>
                   sig = IF FLt(DIF, zero) /\ FLt(DEA, zero) THEN MacdStrongSell
                         ELSE IF FLt(DIF, zero) /\ FGt(DEA, zero) THEN MacdCautiousSell
                         ELSE MacdWeakSell

\* C10: with fewer than 26 rows the MACD is flagged or left undefined: no
\* ordinary MACD signal is reported and no MACD sub-score enters the composite.
C10_ShortSeriesMacdNotOrdinary ==
    (Done /\ SeriesShorterThan(26)) =>
        /\ ~Defined("macd_signal")
        /\ ~HasLine("macd_signal")
        /\ ~HasItem("macd")

\* the value under key is missing from dict, or is not a usable number
Unusable(dict, key) == key \notin DOMAIN dict \/ dict[key].kind # "num"

\* C11: a PE, PB, turnover rate or volume ratio that is missing, non-numeric
\* or NaN never gets one of the ordinary labels or a sub-score; its
\* classification is reported as failed.
C11_UnusableInputNoLabel ==
    Done =>
        /\ Unusable(stock_info_dict, "PE") =>
               ~Defined("pe_analysis") /\ ~HasItem("pe") /\ HasLine("pe_failed")
        /\ Unusable(stock_info_dict, "PB") =>
               ~Defined("pb_analysis") /\ ~HasItem("pb") /\ HasLine("pb_failed")
        /\ Unusable(bid_ask_dict, "turnover") =>
               ~Defined("turnover_analysis") /\ HasLine("turnover_failed")
        /\ Unusable(bid_ask_dict, "volume_ratio") =>
               ~Defined("vol_ratio_analysis") /\ HasLine("vol_ratio_failed")

\* C11: a NaN PE was labelled and scored
C11_NaNLabelled ==
    /\ Done
    /\ "PE" \in DOMAIN stock_info_dict /\ stock_info_dict["PE"] = TokNaN
    /\ Defined("pe_analysis") /\ locals["pe_analysis"] = "extreme"
    /\ HasItem("pe") /\ ItemScore("pe") = 20

\* float() of the snapshot value under key, failing when the key is absent
OwnValue(dict, key) ==
    IF key \in DOMAIN dict THEN ParseFloat(dict[key]) ELSE [ok |-> FALSE, val |-> NaN]

\* the series has at least k rows
SeriesAtLeast(k) == ~annual_hist_data_df.none /\ Len(annual_hist_data_df.close) >= k

\* C12: in the returned report each indicator is produced exactly when its own
\* input is usable, with the label and sub-score that its own input alone
\* determines, whatever happened to the other indicators' inputs.
C12_IndicatorsIsolated ==
    Done =>
        LET pe == OwnValue(stock_info_dict, "PE")
            pb == OwnValue(stock_info_dict, "PB")
            close == annual_hist_data_df.close
        IN  /\ HasItem("pe") <=> pe.ok
            /\ pe.ok => /\ locals["pe_analysis"] = PEAnalysis(pe.val)
                        /\ ItemScore("pe") = PEScore(pe.val)
            /\ HasItem("pb") <=> pb.ok
            /\ pb.ok => /\ locals["pb_analysis"] = PBAnalysis(pb.val)
                        /\ ItemScore("pb") = PBScore(pb.val)
            /\ HasItem("tech") <=> SeriesAtLeast(20)
            /\ HasItem("macd") <=> SeriesAtLeast(20)
            /\ SeriesAtLeast(20) =>
                   \E trend \in {MaTrend(RollingMeanLast(close, 5), RollingMeanLast(close, 10),
                                         RollingMeanLast(close, 20))} :
                   \E m \in {LatestMacd(close)} :
                       /\ locals["ma_trend"] = trend
                       /\ ItemScore("tech") = TechScore(trend)
                       /\ locals["macd_signal"] = MacdSignal(m.DIF, m.DEA)
                       /\ ItemScore("macd") = MacdScore(MacdSignal(m.DIF, m.DEA))
            /\ HasItem("vol") <=> SeriesAtLeast(21)
            /\ HasItem("sharpe") <=> SeriesAtLeast(21)
            /\ SeriesAtLeast(21) =>
                   \E returns \in {Div100(DropNa(annual_hist_data_df.pct))} :
                   \E v \in {Volatility(returns)} :
                   \E sh \in {SharpeRatio(returns, v)} :
                       /\ locals["vol_analysis"] = VolAnalysis(v)
                       /\ ItemScore("vol") = VolScore(v)
                       /\ locals["sharpe_analysis"] = SharpeAnalysis(sh)
                       /\ ItemScore("sharpe") = SharpeScore(sh)

\* C12 witness: a report where the PE is text that float() rejects while the
\* PB and the four series indicators are all scored
C12_Witness ==
    /\ Done
    /\ "PE" \in DOMAIN stock_info_dict /\ stock_info_dict["PE"] = TokText
    /\ ~HasItem("pe")
    /\ HasItem("pb") /\ HasItem("tech") /\ HasItem("macd") /\ HasItem("vol") /\ HasItem("sharpe")

\* C13: the Sharpe ratio is (mean daily return * 252 - 0.03) / volatility when
\* the volatility is positive and exactly 0 when the volatility is 0; where no
\* volatility was computed there is no Sharpe value, label, line or sub-score.
C13_SharpeFormula ==
    Scored =>
        /\ Defined("sharpe_ratio") =>
               LET v == locals["volatility"]
                   s == locals["sharpe_ratio"]
               IN  \E excess \in {FSub(FMul(FMean(locals["returns"]), Num(252)), Q(3, 100))} :
                       /\ ~s.nan
                       /\ IF v.sign = 0
                          THEN s.sign = 0 /\ s.sq = Num(0)
                          ELSE /\ v.sign = 1
                               /\ s.sign = Sign(excess)
                               /\ FMul(s.sq, v.sq) = FMul(excess, excess)
        /\ ~Defined("volatility") =>
               /\ ~Defined("sharpe_ratio") /\ ~Defined("sharpe_analysis")
               /\ ~HasLine("sharpe_ratio") /\ ~HasLine("sharpe_analysis")
               /\ ~HasItem("sharpe")

\* C13 witness: a flat series of more than 20 rows has volatility 0 and was
\* given the Sharpe ratio 0, which was scored
C13_Witness ==
    /\ Done
    /\ Defined("volatility") /\ locals["volatility"].sign = 0
    /\ Defined("sharpe_ratio") /\ locals["sharpe_ratio"].sign = 0
    /\ HasItem("sharpe")

\* C14: for every non-empty close series the quantile is computed, equals
\* (latest - min) / (max - min) and lies in [0,1] when max > min, and is exactly
\* 0 when max = min.
C14_QuantileInUnitInterval ==
    (pc \notin {"info", "bidask", "hist90", "quantile"}
     /\ ~hist_data_df.none /\ ~Empty(hist_data_df)) =>
        /\ Defined("quantile")
        /\ LET close == hist_data_df.close
               q == locals["quantile"]
               hi == SeqMax(close)
               lo == SeqMin(close)
           IN  /\ ~q.nan
               /\ IF hi > lo
                  THEN /\ q.n * (hi - lo) = (Last(close) - lo) * q.d
                       /\ 0 <= q.n /\ q.n <= q.d
                  ELSE q = Num(0)

\* C14 witness: a series whose latest close lies strictly inside its range got
\* a quantile strictly between 0 and 1
C14_Witness ==
    /\ Done
    /\ Defined("quantile")
    /\ 0 < locals["quantile"].n /\ locals["quantile"].n < locals["quantile"].d

\* a flat series of several rows got the quantile 0
C14_FlatSeriesReached ==
    /\ Done
    /\ ~hist_data_df.none /\ Len(hist_data_df.close) >= 2
    /\ SeqMax(hist_data_df.close) = SeqMin(hist_data_df.close)
    /\ locals["quantile"] = Num(0)

\* the six labels of the scenario: low PE, PB below book, bullish alignment,
\* strong buy, low volatility and a good Sharpe ratio
C15_ScenarioLabels ==
    /\ Defined("pe_analysis") /\ locals["pe_analysis"] = "low"
    /\ Defined("pb_analysis") /\ locals["pb_analysis"] = "below_book"
    /\ Defined("ma_trend") /\ locals["ma_trend"] = "bullish_aligned"
    /\ Defined("macd_signal") /\ locals["macd_signal"] = MacdStrongBuy
    /\ Defined("vol_analysis") /\ locals["vol_analysis"] = "low"
    /\ PercentVolBucket(locals["volatility"]).label = "low"
    /\ Defined("sharpe_analysis") /\ locals["sharpe_analysis"] = "good"

\* C15: with a PE in the low bucket, PB below 1, MA5 > MA10 > MA20, a golden
\* cross with DIF and DEA positive, low volatility and a Sharpe ratio in [1,2),
\* all six sub-scores are produced, the composite is at least 80 and the tier is
\* high quality.
C15_ScenarioHighQuality ==
    (Done /\ C15_ScenarioLabels) =>
        /\ score_count = 6
        /\ Defined("total_score")
        /\ FGe(locals["total_score"], Num(80))
        /\ locals["investment_advice"] = "high_quality"

\* C15: the scenario with PE = 5 scored 90 for the PE and was rated high quality
C15_ScenarioReached ==
    /\ Done /\ C15_ScenarioLabels
    /\ locals["pe_float"] = Num(5)
    /\ ItemScore("pe") = 90
    /\ locals["investment_advice"] = "high_quality"

\* C16: the PE sub-score is 0 for every negative PE and 80 for every PE in
\* [10,20); a negative PE as the only metric gives exactly one sub-score, the
\* composite 0 and the tier not recommended.
C16_PEScoreNegativeAndMid ==
    (Scored /\ Defined("pe_float") /\ ~locals["pe_float"].nan) =>
        LET pe == locals["pe_float"]
        IN  /\ HasItem("pe")
            /\ pe.n < 0 => ItemScore("pe") = 0
            /\ (10 * pe.d <= pe.n /\ pe.n < 20 * pe.d) => ItemScore("pe") = 80
            /\ (pe.n < 0 /\ Len(score_items) = 1) =>
                   /\ score_count = 1
                   /\ locals["total_score"] = Num(0)
                   /\ locals["investment_advice"] = "not_recommended"

\* C16 witness: a report whose only metric is PE = -5
C16_Witness ==
    /\ Done
    /\ Defined("pe_float") /\ locals["pe_float"] = Num(-5)
    /\ Len(score_items) = 1 /\ HasItem("pe")
    /\ locals["total_score"] = Num(0)
    /\ locals["investment_advice"] = "not_recommended"

\* a PE of 15, inside [10,20), was scored 80
C16_MidReached ==
    /\ Done
    /\ Defined("pe_float") /\ locals["pe_float"] = Num(15)
    /\ ItemScore("pe") = 80

\* the buckets of the remaining tables, on the value n/d
PBBucket(x) ==
    IF x.n < x.d THEN "below_book" ELSE IF x.n < 3 * x.d THEN "reasonable" ELSE "high"

TurnoverBucket(x) ==
    IF x.n < x.d THEN "inactive"
    ELSE IF x.n < 3 * x.d THEN "normal"
    ELSE IF x.n < 7 * x.d THEN "active"
    ELSE "extreme"

VolRatioBucket(x) ==
    IF 10 * x.n < 8 * x.d THEN "depressed"
    ELSE IF x.n < x.d THEN "below_average"
    ELSE IF x.n < 2 * x.d THEN "normal"
    ELSE IF x.n < 3 * x.d THEN "active"
    ELSE "abnormal_surge"

ReturnBucket(x) ==
    IF x.n > 30 * x.d THEN "strong"
    ELSE IF x.n >= 10 * x.d THEN "good"
    ELSE IF x.n >= 0 THEN "mild_gain"
    ELSE IF x.n >= (-10) * x.d THEN "mild_loss"
    ELSE "poor"

\* the Sharpe bucket of sign * sqrt(sq): the bounds 0.5, 1 and 2 are compared
\* on the squares
SharpeBucket(s) ==
    IF s.sign < 0 THEN "negative"
    ELSE IF 4 * s.sq.n < s.sq.d THEN "poor"
    ELSE IF s.sq.n < s.sq.d THEN "fair"
    ELSE IF s.sq.n < 4 * s.sq.d THEN "good"
    ELSE "excellent"

ReturnGrid == {Num(x) : x \in {y \in (-MaxReturn)..MaxReturn : y % 5 = 0}}

SharpeGrid == {SurdOf(Q(k, 4)) : k \in (-MaxSharpe4)..MaxSharpe4}

\* C17: PB, turnover rate, volume ratio, Sharpe ratio and annual return each get
\* the one label of their bucket, a boundary value belonging to the bucket it
\* opens (annual return: > 30 strong, [10,30] good, [0,10) mild gain, [-10,0)
\* mild loss, < -10 poor).
C17_RemainingTables ==
    Scored =>
        /\ (Defined("pb_float") /\ ~locals["pb_float"].nan) =>
               locals["pb_analysis"] = PBBucket(locals["pb_float"])
        /\ (Defined("turnover_float") /\ ~locals["turnover_float"].nan) =>
               locals["turnover_analysis"] = TurnoverBucket(locals["turnover_float"])
        /\ (Defined("vol_ratio_float") /\ ~locals["vol_ratio_float"].nan) =>
               locals["vol_ratio_analysis"] = VolRatioBucket(locals["vol_ratio_float"])
        /\ (Defined("sharpe_ratio") /\ ~locals["sharpe_ratio"].nan) =>
               locals["sharpe_analysis"] = SharpeBucket(locals["sharpe_ratio"])
        /\ (Defined("annual_return") /\ ~locals["annual_return"].nan) =>
               locals["return_analysis"] = ReturnBucket(locals["annual_return"])
        /\ \A s \in SharpeGrid : SharpeAnalysis(s) = SharpeBucket(s)
        /\ \A x \in ReturnGrid : ReturnAnalysis(x) = ReturnBucket(x)

\* C17 witness: a turnover rate of exactly 7 and a volume ratio of exactly 0.8
\* were labelled by the buckets they open
C17_Witness ==
    /\ Done
    /\ Defined("turnover_float") /\ locals["turnover_float"] = Num(7)
    /\ locals["turnover_analysis"] = "extreme"
    /\ Defined("vol_ratio_float") /\ locals["vol_ratio_float"] = Q(8, 10)
    /\ locals["vol_ratio_analysis"] = "below_average"

\* a / b > c / d on rationals with positive denominators
RatGt(a, b) == a.n * b.d > b.n * a.d

\* C18: the MA alignment is produced only when MA5, MA10 and MA20 of the latest
\* row are all defined; it is bullish exactly when MA5 > MA10 > MA20, bearish
\* exactly when MA5 < MA10 < MA20 and mixed otherwise, any equality included;
\* its sub-score is 80, 40 and 60 respectively.
C18_MaAlignment ==
    Scored =>
        /\ HasItem("tech") <=> Defined("ma_trend")
        /\ Defined("ma_trend") =>
               LET MA5 == locals["latest"].MA5
                   MA10 == locals["latest"].MA10
                   MA20 == locals["latest"].MA20
                   up == RatGt(MA5, MA10) /\ RatGt(MA10, MA20)
                   down == RatGt(MA10, MA5) /\ RatGt(MA20, MA10)
               IN  /\ ~MA5.nan /\ ~MA10.nan /\ ~MA20.nan
                   /\ locals["ma_trend"] = "bullish_aligned" <=> up
                   /\ locals["ma_trend"] = "bearish_aligned" <=> down
                   /\ locals["ma_trend"] = "mixed" <=> (~up /\ ~down)
                   /\ ItemScore("tech") = IF up THEN 80 ELSE IF down THEN 40 ELSE 60

\* C18 witness: three equal averages were labelled mixed and scored 60
C18_Witness ==
    /\ Done
    /\ Defined("ma_trend")
    /\ locals["latest"].MA5 = locals["latest"].MA10
    /\ locals["latest"].MA10 = locals["latest"].MA20
    /\ locals["ma_trend"] = "mixed"
    /\ ItemScore("tech") = 60

\* a bearish alignment was scored 40
C18_BearishReached ==
    /\ Done
    /\ Defined("ma_trend") /\ locals["ma_trend"] = "bearish_aligned"
    /\ ItemScore("tech") = 40

\* a bullish alignment was scored 80
C18_BullishReached ==
    /\ Done
    /\ Defined("ma_trend") /\ locals["ma_trend"] = "bullish_aligned"
    /\ ItemScore("tech") = 80

\* the sum of the last w elements of xs
RECURSIVE TrailingSum(_, _)
TrailingSum(xs, w) ==
    IF w = 0 THEN 0 ELSE xs[Len(xs)] + TrailingSum(SubSeq(xs, 1, Len(xs) - 1), w - 1)

\* the average reported under tag is the mean of exactly w trailing closes, and
\* none is reported for a series of fewer than w rows
MaOfExactly(tag, name, w) ==
    /\ HasLine(tag) =>
           /\ SeriesAtLeast(w)
           /\ ~locals["latest"][name].nan
           /\ locals["latest"][name].n * w
                  = TrailingSum(annual_hist_data_df.close, w) * locals["latest"][name].d
    /\ SeriesShorterThan(w) => ~HasLine(tag)

\* C19: a moving average named for window 5, 10, 20 or 60 is the mean of exactly
\* that many trailing closes and is not reported for a shorter series; the MA
\* alignment and its sub-score exist only when 20 closes do.
C19_MovingAverageWindows ==
    Scored =>
        /\ MaOfExactly("ma5", "MA5", 5)
        /\ MaOfExactly("ma10", "MA10", 10)
        /\ MaOfExactly("ma20", "MA20", 20)
        /\ MaOfExactly("ma60", "MA60", 60)
        /\ SeriesAtLeast(60) => HasLine("ma60")
        /\ SeriesShorterThan(20) => ~Defined("ma_trend") /\ ~HasItem("tech")

\* C19 witness: a series of exactly 60 rows reports MA60, and MA5 differs from it
C19_Witness ==
    /\ Done
    /\ SeriesAtLeast(60) /\ Len(annual_hist_data_df.close) = 60
    /\ HasLine("ma60")
    /\ locals["latest"].MA60 # locals["latest"].MA5

\* a series of 59 rows reports MA5, MA10 and MA20 but no MA60
C19_NoMa60Reached ==
    /\ Done
    /\ SeriesAtLeast(59) /\ Len(annual_hist_data_df.close) = 59
    /\ HasLine("ma20") /\ ~HasLine("ma60")

(***************************************************************************)
(* C20: retry_get_data                                                     *)
(***************************************************************************)
\* the positions of the invocations of func in the trace
InvocationEvents == SelectSeq(events, LAMBDA x : x \in {"call_ok", "call_failed"})

\* C20: for every max_retries >= 0 the call invokes func at most max_retries
\* times, makes no invocation after the first success, and terminates: it
\* returns the value of the successful invocation, or, every invocation
\* having failed, raises the exception raised by the last invocation.
C20_RetryContract ==
    LET calls == InvocationEvents
        k == Len(calls)
    IN  /\ k <= max_retries
        /\ \A i \in 1..k : calls[i] = "call_ok" => i = k
        /\ rpc \in {"for", "except"} => ENABLED RetryNext
        /\ rpc = "returned" =>
               /\ k >= 1
               /\ calls[k] = "call_ok"
               /\ outcome = [kind |-> "returned", val |-> func[k].val]
        /\ rpc = "raised" =>
               /\ \A i \in 1..k : calls[i] = "call_failed"
               /\ k >= 1
               /\ ~func[k].ok
               /\ outcome = [kind |-> "raised", val |-> func[k].val]

\* two failures and then a success: the third value is returned
C20_Witness ==
    /\ rpc = "returned"
    /\ max_retries = MaxRetries
    /\ InvocationEvents = <<"call_failed", "call_failed", "call_ok">>
    /\ outcome = [kind |-> "returned", val |-> func[3].val]

\* max_retries = 0: func is never invoked and raise None raises a TypeError
C20_ZeroRetriesTypeError ==
    /\ rpc = "raised"
    /\ max_retries = 0
    /\ InvocationEvents = <<>>
    /\ outcome = [kind |-> "raised", val |-> "TypeError"]

\* with max_retries >= 1 the contract of C20 holds
C20_ContractFromOne == max_retries >= 1 => C20_RetryContract

(***************************************************************************)
(* C21: the MACD sub-score of each of the six signals                      *)
(***************************************************************************)
\* the MACD sub-score the scoring table gives to a signal
MacdTableScore(sig) ==
    IF sig = MacdStrongBuy THEN 85
    ELSE IF sig = MacdCautiousBuy THEN 75
    ELSE IF sig = MacdWeakBuy THEN 65
    ELSE IF sig = MacdStrongSell THEN 25
    ELSE IF sig = MacdCautiousSell THEN 35
    ELSE 45

\* C21: the MACD sub-score distinguishes the six signals: strong buy 85,
\* cautious buy 75, weak buy 65, strong sell 25, cautious sell 35, weak sell
\* 45; a weak-buy signal scores 65 and a weak-sell signal scores 45.
C21_MacdSixScores ==
    (Scored /\ Defined("macd_signal")) =>
        /\ HasItem("macd")
        /\ ItemScore("macd") = MacdTableScore(locals["macd_signal"])

\* a weak-buy signal (golden cross at or below the zero axis) scored as a buy
C21_WeakBuyScored75 ==
    /\ Scored
    /\ Defined("macd_signal")
    /\ locals["macd_signal"] = MacdWeakBuy
    /\ HasItem("macd")
    /\ ItemScore("macd") = 75

\* a weak-sell signal (dead cross at or above the zero axis) scored as a sell
C21_WeakSellScored35 ==
    /\ Scored
    /\ Defined("macd_signal")
    /\ locals["macd_signal"] = MacdWeakSell
    /\ HasItem("macd")
    /\ ItemScore("macd") = 35

\* the four signals that are not weak get the score of the table
C21_StrongAndCautiousScores ==
    (Scored /\ Defined("macd_signal") /\ locals["macd_signal"] \notin {MacdWeakBuy, MacdWeakSell}) =>
        /\ HasItem("macd")
        /\ ItemScore("macd") = MacdTableScore(locals["macd_signal"])

C21_StrongBuyReached == Scored /\ Defined("macd_signal") /\ locals["macd_signal"] = MacdStrongBuy

C21_CautiousBuyReached == Scored /\ Defined("macd_signal") /\ locals["macd_signal"] = MacdCautiousBuy

C21_StrongSellReached == Scored /\ Defined("macd_signal") /\ locals["macd_signal"] = MacdStrongSell

C21_CautiousSellReached == Scored /\ Defined("macd_signal") /\ locals["macd_signal"] = MacdCautiousSell

(***************************************************************************)
(* C22: the waits of retry_get_data                                        *)
(***************************************************************************)
IsInvocation(x) == x \in {"call_ok", "call_failed"}

Sleeps == Len(SelectSeq(events, LAMBDA x : x = "sleep"))

FailedInvocations == Len(SelectSeq(events, LAMBDA x : x = "call_failed"))

\* C22: a wait of retry_interval occurs only between a failed invocation and
\* the next invocation; no wait follows a success or the final
\* (max_retries-th) failed invocation, so a run in which all max_retries >= 1
\* invocations fail waits exactly max_retries - 1 times before raising.
C22_WaitsOnlyBetweenAttempts ==
    /\ \A i \in 1..Len(events) :
           events[i] = "sleep" =>
               /\ i > 1
               /\ events[i - 1] = "call_failed"
               /\ i < Len(events) => IsInvocation(events[i + 1])
               /\ i = Len(events) => rpc = "for" /\ attempt < max_retries
    /\ \A i \in 1..Len(events) : events[i] = "call_ok" => i = Len(events)
    /\ \A i \in 2..Len(events) : IsInvocation(events[i]) => events[i - 1] = "sleep"
    /\ \A i \in 1..Len(events) :
           (events[i] = "call_failed" /\ i < Len(events)) => events[i + 1] = "sleep"
    /\ rpc \in {"returned", "raised"} =>
           /\ events # <<>> => IsInvocation(events[Len(events)])
           /\ FailedInvocations < max_retries => Sleeps = FailedInvocations
    /\ (rpc = "raised" /\ max_retries >= 1) =>
           /\ FailedInvocations = max_retries
           /\ Invocations(events) = max_retries
           /\ Sleeps = max_retries - 1

\* every one of MaxRetries invocations failed: MaxRetries - 1 waits, the last
\* event being the final failed invocation
C22_Witness ==
    /\ rpc = "raised"
    /\ max_retries = MaxRetries
    /\ FailedInvocations = MaxRetries
    /\ Sleeps = MaxRetries - 1
    /\ events[Len(events)] = "call_failed"

\* a success on the second attempt: one wait, none after the success
C22_SuccessNoWaitReached ==
    /\ rpc = "returned"
    /\ max_retries = MaxRetries
    /\ events = <<"call_failed", "sleep", "call_ok">>

(***************************************************************************)
(* C23: the series the annual indicators are computed on                   *)
(***************************************************************************)
\* section 6.1 has run
AnnualChosen == pc \notin {"info", "bidask", "hist90", "quantile", "annual", "idle"}

\* the 90-day series is missing or has fewer than 250 rows
QuarterMissingOrShort == ~provider.hist90.ok \/ Len(provider.hist90.df.close) < 250

BothFetchesFailed == ~provider.hist90.ok /\ ~provider.hist365.ok

PriceLocals ==
    {"price_change", "quantile", "annual_return", "return_analysis", "returns", "volatility",
     "vol_analysis", "sharpe_ratio", "sharpe_analysis", "latest", "latest_macd", "ma_trend",
     "macd_signal"}

PriceLines ==
    {"hist_first_price", "hist_last_price", "hist_change", "quantile_position", "annual_return",
     "return_analysis", "volatility", "vol_analysis", "sharpe_ratio", "sharpe_analysis",
     "latest_close", "ma5", "ma10", "ma20", "ma60", "ma_trend", "macd_values", "macd_signal"}

\* the annual indicators of the finished report are those of the series df
IndicatorsComputedOn(df) ==
    /\ Defined("annual_return") <=> Len(df.close) > 1
    /\ Defined("annual_return") =>
           locals["annual_return"] = FMul(Q(Last(df.close) - df.close[1], df.close[1]), Num(100))
    /\ Defined("volatility") <=> Len(df.close) > 20
    /\ Defined("sharpe_ratio") <=> Len(df.close) > 20
    /\ Defined("volatility") =>
           \E returns \in {Div100(DropNa(df.pct))} :
           \E v \in {Volatility(returns)} :
               /\ locals["volatility"] = v
               /\ locals["sharpe_ratio"] = SharpeRatio(returns, v)
    /\ Defined("latest_macd") <=> Len(df.close) >= 20
    /\ Defined("latest_macd") =>
           /\ locals["latest_macd"] = LatestMacd(df.close)
           /\ locals["latest"].MA5 = RollingMeanLast(df.close, 5)
           /\ locals["latest"].MA10 = RollingMeanLast(df.close, 10)
           /\ locals["latest"].MA20 = RollingMeanLast(df.close, 20)

\* C23: when the 90-day series is missing or has fewer than 250 rows the
\* 365-day fetch is attempted and its result is the series of the annual
\* indicators on success; when that fetch fails the 90-day series is used if
\* it was fetched; when both fetches failed no price-based indicator or
\* sub-score is produced, and the report is still returned.
C23_AnnualSeriesChoice ==
    /\ (AnnualChosen /\ QuarterMissingOrShort /\ provider.hist365.ok) =>
           /\ annual_hist_data_df = provider.hist365.df
           /\ ~HasLine("annual_failed")
           /\ Done => IndicatorsComputedOn(provider.hist365.df)
    /\ (AnnualChosen /\ QuarterMissingOrShort /\ ~provider.hist365.ok /\ provider.hist90.ok) =>
           /\ annual_hist_data_df = provider.hist90.df
           /\ HasLine("annual_failed")
           /\ Done => IndicatorsComputedOn(provider.hist90.df)
    /\ (AnnualChosen /\ BothFetchesFailed) =>
           /\ annual_hist_data_df = None
           /\ HasLine("hist_failed") /\ HasLine("annual_failed")
    /\ BothFetchesFailed =>
           /\ DOMAIN locals \cap PriceLocals = {}
           /\ \A i \in 1..Len(result_sections) : result_sections[i] \notin PriceLines
           /\ \A i \in 1..Len(score_items) :
                  score_items[i].name \notin {"tech", "macd", "vol", "sharpe"}
           /\ ~Done => ENABLED Next
           /\ Done => Last(result_sections) = "disclaimer"

\* the 90-day fetch returned 249 rows and the one-year fetch a different
\* series: the report's indicators are those of the one-year series
C23_Witness ==
    /\ Done
    /\ provider.hist90.ok /\ Len(provider.hist90.df.close) = AnnualMinRows - 1
    /\ provider.hist365.ok
    /\ annual_hist_data_df = provider.hist365.df
    /\ annual_hist_data_df # hist_data_df
    /\ HasItem("macd")

\* the one-year fetch failed after a 90-day fetch that succeeded
C23_FallbackReached ==
    /\ Done
    /\ provider.hist90.ok /\ ~provider.hist365.ok
    /\ Len(provider.hist90.df.close) < AnnualMinRows
    /\ annual_hist_data_df = provider.hist90.df
    /\ HasItem("macd")

\* both fetches failed and the report is returned with the snapshot's sub-scores only
C23_BothFailedReported ==
    /\ Done
    /\ BothFetchesFailed
    /\ HasItem("pe")
    /\ Last(result_sections) = "disclaimer"

\* a 90-day series of 250 rows is kept whatever the one-year fetch would return
C23_YearLongSeriesKept ==
    (AnnualChosen /\ provider.hist90.ok /\ Len(provider.hist90.df.close) >= AnnualMinRows) =>
        /\ annual_hist_data_df = provider.hist90.df
        /\ ~HasLine("annual_failed")

C23_YearLongReached ==
    /\ Done
    /\ provider.hist365.ok
    /\ Len(provider.hist90.df.close) = AnnualMinRows
    /\ annual_hist_data_df = hist_data_df

====
